---- MODULE Spec2Model ----
(***************************************************************************)
(* qdb-blaster: the per-table blasting engine of src/src/blasting.rs and   *)
(* the run orchestrator of src/src/main.rs.                                *)
(*                                                                         *)
(* One behaviour is one run of the process on one settings structure.      *)
(* main spawns one thread per table (blast_table); blast_table validates,  *)
(* provisions, distributes the rows and spawns one thread per sender       *)
(* (TableSender::run); every thread is a sequential program whose position *)
(* is its pc.  The thread steps interleave freely.                         *)
(*                                                                         *)
(* The ingestion client and the administrative client are external: a call *)
(* to them either succeeds or fails, chosen nondeterministically, and the  *)
(* calls a sender makes are recorded, in order, in the variable wire.      *)
(***************************************************************************)
EXTENDS Integers, Sequences, FiniteSets, TLC

(***************************************************************************)
(* Bounds of the model.                                                    *)
(***************************************************************************)
\* largest tot_rows of a one-sender run
MaxRows == 5
\* largest batch-size endpoint of a one-sender run
MaxBatch == 2
\* largest batches_connection_keepalive of a one-sender run
MaxKeepalive == 2
\* a sender is stopped before it starts a batch beyond this many (a batch
\* size of 0 never exhausts the quota)
MaxBatches == 6
\* largest parallel_senders
MaxSenders == 2
\* largest tot_rows of a run with several senders
TableMaxRows == 2
\* largest tot_rows of each table of a run with two tables
RunMaxRows == 1

(***************************************************************************)
(* Program constants.                                                      *)
(***************************************************************************)
\* blasting.rs:114  rng.random_range(0..1_000_000_000)
START_OFFSET_END == 1000000000
\* blasting.rs:213  random_range(1_000_000..10_000_000)
INCREMENT_START == 1000000
INCREMENT_END == 10000000
\* blasting.rs:290  extra_rows as u16
U16_MODULUS == 65536
\* blasting.rs:23  const SYMBOL_POOL_SIZE: usize = 4000
SYMBOL_POOL_SIZE == 4000
\* blasting.rs:41, 42, 48  the moduli of the numbered symbol templates
HOSTS == 100
SERVICES == 50
APPS == 200

\* the values the two random draws of the timestamp cursor are taken from:
\* the largest start offset, and both ends of the half-open increment range
StartOffsets == {START_OFFSET_END - 1}
Increments == {INCREMENT_START, INCREMENT_END - 1}

(***************************************************************************)
(* col.rs: ColType                                                         *)
(***************************************************************************)
ColType == {"Symbol", "Timestamp", "Long", "Double"}

(***************************************************************************)
(* Identifier rules of the ingestion client (TableName::new and            *)
(* ColumnName::new), on the names the model uses.  "a-b" is a table name   *)
(* but no column name; "" and names holding '?' are neither.               *)
(***************************************************************************)
InvalidTableNames == {"", "bad?tbl", "bad?col", "bad?ts"}
InvalidColumnNames == {"", "bad?tbl", "bad?col", "bad?ts", "a-b"}

TableName_new(name) == name \notin InvalidTableNames
ColumnName_new(name) == name \notin InvalidColumnNames

(***************************************************************************)
(* Results and errors.  An anyhow error is modelled by its outermost       *)
(* message, the identifier the message quotes (if any) and, for the        *)
(* aggregated error of blast_table, the errors it lists.                   *)
(***************************************************************************)
Error(msg, name, causes) == [msg |-> msg, name |-> name, causes |-> causes]
NoError == Error("", "", <<>>)
Ok == [ok |-> TRUE, err |-> NoError]
Err(e) == [ok |-> FALSE, err |-> e]

(***************************************************************************)
(* blasting.rs:361-381  validate_names                                     *)
(***************************************************************************)
RECURSIVE first_invalid_column(_, _)
first_invalid_column(schema, i) ==
    IF i > Len(schema) THEN 0
    ELSE IF ~ColumnName_new(schema[i][1]) THEN i
    ELSE first_invalid_column(schema, i + 1)

\* only the table name validated
validate_names_table_only(table_name, table_config) ==
    IF ~TableName_new(table_name)
    THEN Err(Error("Invalid table name", table_name, <<>>))
    ELSE Ok

validate_names(table_name, table_config) ==
    IF ~TableName_new(table_name)
    THEN Err(Error("Invalid table name", table_name, <<>>))
    ELSE LET i == first_invalid_column(table_config.schema, 1) IN
         IF i # 0
         THEN Err(Error("Invalid column name", table_config.schema[i][1], <<>>))
         ELSE IF ~ColumnName_new(table_config.designated_ts)
         THEN Err(Error("Invalid designated timestamp column name",
                        table_config.designated_ts, <<>>))
         ELSE Ok

(***************************************************************************)
(* blasting.rs:272-290  the row quota of each sender                       *)
(***************************************************************************)
base_rows_per_sender(total_rows, parallel_senders) ==
    total_rows \div parallel_senders

extra_rows(total_rows, parallel_senders) ==
    total_rows % parallel_senders

as_u16(x) == x % U16_MODULUS

\* the comparison off by one: one sender too many gets an extra row
rows_for_this_sender_off_by_one(sender_id, base, extra) ==
    base + (IF sender_id <= as_u16(extra) THEN 1 ELSE 0)

rows_for_this_sender(sender_id, base, extra) ==
    base + (IF sender_id < as_u16(extra) THEN 1 ELSE 0)

(***************************************************************************)
(* blasting.rs:292-308  the column lists of a sender                       *)
(***************************************************************************)
\* no column told apart: the whole schema taken as the field list
classify_columns_all_fields(schema, designated_ts, i, symbol_columns, field_columns) ==
    [symbol_columns |-> <<>>, field_columns |-> schema]

\* blasting.rs:292-308  the loop over the schema from index i on, with the
\* two lists built so far
RECURSIVE classify_columns(_, _, _, _, _)
classify_columns(schema, designated_ts, i, symbol_columns, field_columns) ==
    IF i > Len(schema)
    THEN [symbol_columns |-> symbol_columns, field_columns |-> field_columns]
    ELSE LET col_name == schema[i][1]
             col_type == schema[i][2]
         IN  IF col_name = designated_ts
             THEN classify_columns(schema, designated_ts, i + 1,
                                   symbol_columns, field_columns)
             ELSE IF col_type = "Symbol"
             THEN classify_columns(schema, designated_ts, i + 1,
                                   Append(symbol_columns, col_name), field_columns)
             ELSE classify_columns(schema, designated_ts, i + 1,
                                   symbol_columns,
                                   Append(field_columns, <<col_name, col_type>>))

(***************************************************************************)
(* blasting.rs:215-251  the buffer calls that build one row                *)
(***************************************************************************)
BufferOp(op, name) == [op |-> op, name |-> name]

field_op(col_type) ==
    CASE col_type = "Long" -> "column_i64"
      [] col_type = "Double" -> "column_f64"
      [] col_type = "Timestamp" -> "column_ts"
      [] col_type = "Symbol" -> "unreachable"

symbol_ops(symbol_columns) ==
    [i \in 1..Len(symbol_columns) |-> BufferOp("symbol", symbol_columns[i])]

field_ops(field_columns) ==
    [i \in 1..Len(field_columns) |->
        BufferOp(field_op(field_columns[i][2]), field_columns[i][1])]

\* the field columns written before the symbol columns
row_ops_fields_first(table_name, symbol_columns, field_columns) ==
    <<BufferOp("table", table_name)>>
        \o field_ops(field_columns)
        \o symbol_ops(symbol_columns)
        \o <<BufferOp("at", "")>>

row_ops(table_name, symbol_columns, field_columns) ==
    <<BufferOp("table", table_name)>>
        \o symbol_ops(symbol_columns)
        \o field_ops(field_columns)
        \o <<BufferOp("at", "")>>

\* the index of the first call of the row that panics (unreachable!), or 0
first_unreachable(ops) ==
    IF \E i \in 1..Len(ops) : ops[i].op = "unreachable"
    THEN CHOOSE i \in 1..Len(ops) :
            /\ ops[i].op = "unreachable"
            /\ \A j \in 1..(i - 1) : ops[j].op # "unreachable"
    ELSE 0

(***************************************************************************)
(* blasting.rs:127-130  the size of the next batch                         *)
(***************************************************************************)
min(a, b) == IF a <= b THEN a ELSE b

\* the sampled size used without clipping it to the rows that remain
actual_batch_size_unclipped(batch_size, rows_remaining) == batch_size

actual_batch_size(batch_size, rows_remaining) == min(batch_size, rows_remaining)

\* the cursor set to the increment instead of advanced by it
advance_timestamp_reset(current_timestamp, increment) == increment

\* blasting.rs:213  *current_timestamp += increment
advance_timestamp(current_timestamp, increment) == current_timestamp + increment

\* the result of the flush ignored
send_batch_result_swallowed(flushed) == Ok

\* blasting.rs:254-258  the result of send_batch once the rows are built:
\* the result of the flush, with context
send_batch_result(flushed) ==
    IF flushed THEN Ok
    ELSE Err(Error("Failed to flush batch to QuestDB", "", <<>>))

\* a store in place of the addition: earlier additions are lost
fetch_add_as_store(value, n) == n

\* blasting.rs:146-147  global_sent_counter.fetch_add(n): the new value
fetch_add(value, n) == value + n

\* blasting.rs:183-187: the final flush; its failure is returned with context
final_flush_result(flushed) ==
    IF flushed THEN Ok
    ELSE Err(Error("Failed to flush final batch", "", <<>>))

\* the loop entered once more when the quota is reached
rows_remain_inclusive(rows_sent, rows_to_send) == rows_sent <= rows_to_send

\* blasting.rs:119  while rows_sent < self.rows_to_send
rows_remain(rows_sent, rows_to_send) == rows_sent < rows_to_send

\* the threshold compared with > instead of >=
keepalive_reached_late(batches_sent, keepalive) == batches_sent > keepalive

\* blasting.rs:155  batches_sent >= batches_connection_keepalive
keepalive_reached(batches_sent, keepalive) == batches_sent >= keepalive

(***************************************************************************)
(* The fixed-width arithmetic of run and blast_table.  A u16 is a number   *)
(* below U16_MODULUS.  A u32 and a u64 are written as 2 and 4 digits in     *)
(* base U16_MODULUS, the most significant first, so that every value of    *)
(* these types can be written.                                             *)
(***************************************************************************)
\* the outcomes of an arithmetic overflow: a panic in a build with overflow
\* checks, the wrapped value in a build without
Builds == {"checked", "wrapping"}

\* blasting.rs:143  batches_sent += 1 on a u16: the 16 bits of the sum, and
\* whether the sum does not fit them
add_u16(a, b) ==
    [value |-> as_u16(a + b), overflow |-> a + b >= U16_MODULUS]

\* blasting.rs:130  batch_size as u64: zeros added on the left
u32_as_u64(x) == <<0, 0>> \o x

\* the order of two u64, compared digit by digit
less_u64(x, y) ==
    \E i \in 1..4 : x[i] < y[i] /\ \A j \in 1..(i - 1) : x[j] = y[j]

\* blasting.rs:130  std::cmp::min on two u64
min_u64(x, y) == IF less_u64(y, x) THEN y ELSE x

\* blasting.rs:130  as u32: the low 32 bits are kept
u64_as_u32(x) == SubSeq(x, 3, 4)

\* the larger of the two taken instead of the smaller
clipped_batch_size_largest(batch_size, rows_remaining) ==
    u64_as_u32(IF less_u64(u32_as_u64(batch_size), rows_remaining)
               THEN rows_remaining ELSE u32_as_u64(batch_size))

\* blasting.rs:130  min(batch_size as u64, rows_remaining) as u32
clipped_batch_size(batch_size, rows_remaining) ==
    u64_as_u32(min_u64(u32_as_u64(batch_size), rows_remaining))

(***************************************************************************)
(* DataGenerator, blasting.rs:25-84.  The pool is the same for every        *)
(* generator (DataGenerator::new computes it from the indices alone), so   *)
(* it is the definition symbol_pool; the state of a generator holds the    *)
(* symbol it drew last and the number of its draws of a symbol.            *)
(***************************************************************************)
\* format!("{:0width$}"): the decimal digits, zeros added on the left
RECURSIVE zero_padded(_, _)
zero_padded(digits, width) ==
    IF Len(digits) >= width THEN digits
    ELSE zero_padded("0" \o digits, width)

\* blasting.rs:45, 47  the names indexed by i % 4 and i % 3
REGIONS == <<"us-east", "us-west", "eu-central", "ap-south">>
ENVS == <<"prod", "stage", "dev">>

\* blasting.rs:40-49  the five strings built for index i
variants(i) ==
    << "host-" \o zero_padded(ToString(i % HOSTS), 4),
       "service-" \o ToString(i % SERVICES),
       "region-" \o REGIONS[(i % Len(REGIONS)) + 1],
       "env-" \o ENVS[(i % Len(ENVS)) + 1],
       "app-" \o zero_padded(ToString(i % APPS), 3) >>

\* blasting.rs:50  variants[i % variants.len()].clone()
pool_entry(i) == variants(i)[(i % Len(variants(i))) + 1]

\* blasting.rs:37-52  the pool: the entries for the indices 0..SYMBOL_POOL_SIZE
symbol_pool == [i \in 0..(SYMBOL_POOL_SIZE - 1) |-> pool_entry(i)]

\* the indices random_range(0..symbols.len()) is taken from: both ends
SymbolIndices == {0, SYMBOL_POOL_SIZE - 1}

\* a generator not yet built
NoGenerator == [pc |-> "new", symbol |-> "", draws |-> 0]

\* blasting.rs:34-59  DataGenerator::new: the generator with its pool built
DataGenerator_new == [pc |-> "ready", symbol |-> "", draws |-> 0]

\* blasting.rs:61-64  generate_symbol: the entry of the pool at the index drawn
generate_symbol(data_gen, idx) ==
    [data_gen EXCEPT !.symbol = symbol_pool[idx], !.draws = @ + 1]

\* the generator after the draws at the indices idxs[1..n], in order
RECURSIVE generate_symbols(_, _, _)
generate_symbols(data_gen, idxs, n) ==
    IF n = 0 THEN data_gen
    ELSE generate_symbol(generate_symbols(data_gen, idxs, n - 1), idxs[n])

(***************************************************************************)
(* settings.rs: Settings, Table, SendSettings.  The settings structures    *)
(* the runs are started on.                                                *)
(***************************************************************************)
SendSettings(batch_pause, batch_size, parallel_senders, tot_rows, keepalive) ==
    [batch_pause |-> batch_pause,
     batch_size |-> batch_size,
     parallel_senders |-> parallel_senders,
     tot_rows |-> tot_rows,
     batches_connection_keepalive |-> keepalive]

Table(schema, designated_ts, send) ==
    [schema |-> schema, designated_ts |-> designated_ts, send |-> send]

Settings(table_name, table_config) ==
    [tables |-> (table_name :> table_config)]

SchemaTrades ==
    << <<"sym", "Symbol">>, <<"price", "Double">>, <<"ts", "Timestamp">> >>
SchemaMixed ==
    << <<"qty", "Long">>, <<"sym", "Symbol">>, <<"ts", "Timestamp">>,
       <<"recv", "Timestamp">>, <<"venue", "Symbol">> >>
SchemaBadColumn ==
    << <<"sym", "Symbol">>, <<"bad?col", "Long">>, <<"ts", "Timestamp">> >>
\* the name "ts" declared twice
SchemaTwice ==
    << <<"ts", "Timestamp">>, <<"sym", "Symbol">>, <<"ts", "Timestamp">> >>

\* schema and designated timestamp of the tables the runs are started on
TableShapes ==
    { <<SchemaTrades, "ts">>, <<SchemaMixed, "ts">>,
      <<SchemaBadColumn, "ts">>, <<SchemaTrades, "bad?ts">>,
      <<SchemaTwice, "ts">>, <<SchemaTrades, "time">> }

TableNames == {"trades", "a-b", "bad?tbl"}

\* batch_pause ranges: a proper one and an empty one (min > max)
PauseRanges == { <<0, 1>>, <<1, 0>> }

BatchSizes(largest) == (0..largest) \X (0..largest)

\* one sender: every batch-size range and quota under the largest keepalive
\* threshold, every keepalive threshold and quota under batches of 1 and of
\* 1 or 2 rows, 25 rows in batches of 10, and every table name and shape on
\* one send configuration
UnitSettings ==
    { Settings("trades",
               Table(SchemaTrades, "ts",
                     SendSettings(<<0, 1>>, b, 1, r, MaxKeepalive))) :
        b \in BatchSizes(MaxBatch), r \in 0..MaxRows }
    \cup
    { Settings("trades",
               Table(SchemaTrades, "ts", SendSettings(<<0, 1>>, b, 1, r, k))) :
        b \in { <<1, 1>>, <<1, 2>> }, r \in 0..MaxRows, k \in 0..MaxKeepalive }
    \cup
    { Settings("trades",
               Table(SchemaTrades, "ts", SendSettings(<<0, 1>>, <<10, 10>>, 1, 25, 2))) }
    \cup
    { Settings(n, Table(sh[1], sh[2], SendSettings(p, <<1, 2>>, 1, 2, 1))) :
        n \in TableNames, sh \in TableShapes, p \in PauseRanges }

\* several senders on one table; a batch-size range of several sizes only
\* with one sender, the only one whose quota exceeds one row at these bounds
TableSettings ==
    { Settings(n, Table(sh[1], sh[2], SendSettings(<<0, 1>>, b, ps, r, 1))) :
        n \in {"trades", "bad?tbl"},
        sh \in { <<SchemaTrades, "ts">>, <<SchemaBadColumn, "ts">>,
                 <<SchemaTrades, "bad?ts">> },
        b \in { <<1, 1>>, <<2, 1>> },
        ps \in 0..MaxSenders,
        r \in 0..TableMaxRows }
    \cup
    { Settings("trades",
               Table(SchemaTrades, "ts", SendSettings(<<0, 1>>, <<1, 2>>, 1, r, 1))) :
        r \in 0..TableMaxRows }

\* two tables, each with at most one sender: the first with a valid name,
\* the second with a valid or an invalid one
RunSettings ==
    { [tables |->
          ("trades" :> Table(SchemaTrades, "ts",
                             SendSettings(<<0, 1>>, <<1, 1>>, ps1, r1, 1)))
          @@ (n2 :> Table(SchemaTrades, "ts",
                          SendSettings(<<0, 1>>, <<1, 1>>, ps2, r2, 1)))] :
        n2 \in {"quotes", "bad?tbl"},
        ps1 \in 0..1, ps2 \in 0..1,
        r1 \in 0..RunMaxRows, r2 \in 0..RunMaxRows }

SenderIds == 0..(MaxSenders - 1)

(***************************************************************************)
(* State.                                                                  *)
(***************************************************************************)
VARIABLES
    settings,   \* main.rs:20  the Settings of the run
    main,       \* main.rs:34-74  locals of main: handles, errors, result
    table,      \* blasting.rs:263-358  locals of each blast_table thread
    counter,    \* blasting.rs:284  global_sent_counter of each table
    sender,     \* blasting.rs:86-117  each TableSender and the locals of run
    wire,       \* what each sender did to the ingestion client, in order
    generator,  \* blasting.rs:116  data_gen, the DataGenerator of each sender
    arith       \* the fixed-width values of run and blast_table, at full width

vars == <<settings, main, table, counter, sender, wire, generator, arith>>

Tables == DOMAIN settings.tables

InitTable ==
    [pc |-> "unspawned", result |-> Ok, admin |-> <<>>,
     base_rows_per_sender |-> 0, extra_rows |-> 0,
     sender_id |-> 0, joined |-> 0, errors |-> <<>>, final_count |-> -1]

InitSender ==
    [pc |-> "unspawned", sender_id |-> 0, rows_to_send |-> 0,
     symbol_columns |-> <<>>, field_columns |-> <<>>,
     rows_sent |-> 0, batches_sent |-> 0, current_timestamp |-> 0,
     client |-> FALSE, batch_size |-> 0, actual_batch_size |-> 0,
     row |-> 0, result |-> Ok]

InitWire ==
    [calls |-> <<>>, flush_failed |-> FALSE,
     batches |-> 0, batch |-> [sampled |-> 0, remaining |-> 0, rows |-> 0],
     last_row |-> <<>>, rows |-> 0, last_at |-> -1, buffered |-> 0, added |-> 0]

\* the values run and blast_table compute in fixed width, not yet computed
InitArith ==
    [pc |-> "idle", keepalive |-> 0, batches_sent |-> 0, overflow |-> FALSE,
     batch_size |-> <<0, 0>>, rows_remaining |-> <<0, 0, 0, 0>>,
     actual_batch_size |-> <<0, 0>>,
     total_rows |-> 0, parallel_senders |-> 0, extra_rows |-> 0,
     extra_rows_as_u16 |-> 0]

InitProgram(all_settings) ==
    /\ settings \in all_settings
    /\ main = [pc |-> "run", handles |-> <<>>, joined |-> 0,
               errors |-> <<>>, result |-> Ok]
    /\ table = [t \in DOMAIN settings.tables |-> InitTable]
    /\ counter = [t \in DOMAIN settings.tables |-> 0]
    /\ sender = [t \in DOMAIN settings.tables |-> [s \in SenderIds |-> InitSender]]
    /\ wire = [t \in DOMAIN settings.tables |-> [s \in SenderIds |-> InitWire]]
    /\ generator = [t \in DOMAIN settings.tables |-> [s \in SenderIds |-> NoGenerator]]

InitOn(all_settings) == InitProgram(all_settings) /\ arith = InitArith

Init == InitOn(TableSettings)
InitUnit == InitOn(UnitSettings)
InitRun == InitOn(RunSettings)
\* the largest u16
U16_MAX == U16_MODULUS - 1
\* batches_connection_keepalive: the smallest and the largest values of a u16
Keepalives == {0, 1, 2, U16_MAX - 1, U16_MAX}
\* the digits the u32 and u64 inputs are written with
Digits == {0, 1, U16_MAX}
\* sampled batch sizes (u32) and rows that remain (u64), up to the largest
WideBatchSizes == {<<a, b>> : a \in Digits, b \in Digits}
WideRows == {<<a, b, c, d>> : a \in Digits, b \in Digits, c \in Digits, d \in Digits}
\* parallel_senders (u16) and tot_rows (u64)
WideSenders == {0, 1, 2, U16_MAX}
WideTotals == {0, 1, U16_MAX - 1, U16_MAX, U16_MODULUS, 2 * U16_MODULUS - 3}

\* the fixed-width values followed at full width: batches_sent of a sender
\* at the start of run (blasting.rs:106) for a keepalive threshold, the
\* clipping of a sampled batch size (line 130), the extra rows (lines 276, 290)
ArithInputs ==
    { [InitArith EXCEPT !.pc = "loop", !.keepalive = k] : k \in Keepalives }
    \cup
    { [InitArith EXCEPT !.pc = "clip", !.batch_size = b, !.rows_remaining = r] :
        b \in WideBatchSizes, r \in WideRows }
    \cup
    { [InitArith EXCEPT !.pc = "distribute", !.total_rows = n,
                        !.parallel_senders = ps] :
        n \in WideTotals, ps \in WideSenders }

InitWidth ==
    /\ InitProgram({Settings("trades",
           Table(SchemaTrades, "ts", SendSettings(<<0, 1>>, <<1, 1>>, 1, 1, 1)))})
    /\ arith \in ArithInputs

(***************************************************************************)
(* TableSender::run and TableSender::send_batch, blasting.rs:99-259, as    *)
(* the steps of sender s of table t.                                       *)
(***************************************************************************)
Config(t) == settings.tables[t]

\* the record r with the fields of changes replaced
With(r, changes) == changes @@ r

\* leaving run (return or panic) drops the client: an open connection closes
Dropped(client, calls) == IF client THEN Append(calls, "close") ELSE calls

SenderStep(t, s, sender_changes, wire_changes) ==
    /\ sender' = [sender EXCEPT ![t][s] = With(@, sender_changes)]
    /\ wire' = [wire EXCEPT ![t][s] = With(@, wire_changes)]

\* blasting.rs:100-117: the locals of run.  The clock read at lines 107-110
\* is beyond the numbers of the model: current_timestamp counts the
\* nanoseconds since that instant, so it starts at the random offset.
run_start(t, s) ==
    /\ sender[t][s].pc = "spawned"
    /\ \E offset \in StartOffsets :
          SenderStep(t, s,
              [pc |-> "loop", rows_sent |-> 0, batches_sent |-> 0,
               current_timestamp |-> offset, client |-> FALSE],
              <<>>)
    /\ generator' = [generator EXCEPT ![t][s] = DataGenerator_new]
    /\ UNCHANGED <<arith, settings, main, table, counter>>

\* blasting.rs:119-130: the loop condition holds; connect if there is no
\* client, sample the batch size and clip it to the rows that remain
run_begin_batch(t, s) ==
    LET me == sender[t][s]
        send == Config(t).send
        connected == Append(wire[t][s].calls, "connect")
        calls == IF me.client THEN wire[t][s].calls ELSE connected
    IN
    /\ me.pc = "loop"
    /\ rows_remain(me.rows_sent, me.rows_to_send)
    /\ wire[t][s].batches < MaxBatches
    /\ \/ /\ ~me.client
          /\ SenderStep(t, s,
                [pc |-> "failed",
                 result |-> Err(Error("Failed to create QuestDB ILP sender", "", <<>>))],
                [calls |-> Append(wire[t][s].calls, "connect_failed")])
       \/ /\ send.batch_size[1] > send.batch_size[2]
          /\ SenderStep(t, s,
                [pc |-> "panicked", client |-> FALSE],
                [calls |-> Append(calls, "close")])
       \/ \E batch_size \in send.batch_size[1]..send.batch_size[2] :
             SenderStep(t, s,
                [pc |-> "rows", client |-> TRUE, batch_size |-> batch_size,
                 actual_batch_size |->
                    actual_batch_size(batch_size, me.rows_to_send - me.rows_sent),
                 row |-> 0],
                [calls |-> calls])
    /\ UNCHANGED <<arith, generator, settings, main, table, counter>>

\* blasting.rs:211-252: one iteration of the row loop of send_batch
send_batch_row(t, s) ==
    LET me == sender[t][s]
        ops == row_ops(t, me.symbol_columns, me.field_columns)
        panics == first_unreachable(ops)
        symbols == Len(me.symbol_columns)
        \* the calls that can return: all, or those before the unreachable one
        returning == IF panics # 0 THEN panics - 1 ELSE Len(ops)
    IN
    /\ me.pc = "rows"
    /\ me.row < me.actual_batch_size
    /\ \E increment \in Increments, idxs \in [1..symbols -> SymbolIndices] :
        LET timestamp == advance_timestamp(me.current_timestamp, increment) IN
        \/ /\ IF panics # 0
              THEN SenderStep(t, s,
                      [pc |-> "panicked", client |-> FALSE,
                       current_timestamp |-> timestamp],
                      [calls |-> Append(wire[t][s].calls, "close"),
                       last_row |-> SubSeq(ops, 1, panics - 1)])
              ELSE SenderStep(t, s,
                      [row |-> me.row + 1, current_timestamp |-> timestamp],
                      [last_row |-> ops, rows |-> wire[t][s].rows + 1,
                       last_at |-> timestamp,
                       buffered |-> wire[t][s].buffered + 1])
           /\ generator' = [generator EXCEPT ![t][s] =
                                generate_symbols(@, idxs, symbols)]
        \/ \E failing \in 1..returning :
              /\ SenderStep(t, s,
                    [pc |-> "failed", client |-> FALSE,
                     current_timestamp |-> timestamp,
                     result |-> Err(Error("ingestion buffer error", "", <<>>))],
                    [calls |-> Append(wire[t][s].calls, "close"),
                     last_row |-> SubSeq(ops, 1, failing - 1)])
              \* a symbol is drawn before its buffer.symbol call is made
              /\ generator' = [generator EXCEPT ![t][s] =
                                   generate_symbols(@, idxs,
                                                    min(symbols, failing - 1))]
    /\ UNCHANGED <<arith, settings, main, table, counter>>

\* blasting.rs:254-258: the flush that ends send_batch
send_batch_flush(t, s) ==
    LET me == sender[t][s] IN
    /\ me.pc = "rows"
    /\ me.row = me.actual_batch_size
    /\ \E flushed \in BOOLEAN :
        LET result == send_batch_result(flushed)
            calls == Append(wire[t][s].calls,
                            IF flushed THEN "flush_batch" ELSE "flush_batch_failed")
            flush_failed == wire[t][s].flush_failed \/ ~flushed
        IN  IF result.ok
            THEN SenderStep(t, s,
                    [pc |-> "count"],
                    [calls |-> calls, flush_failed |-> flush_failed,
                     buffered |-> IF flushed THEN 0 ELSE wire[t][s].buffered,
                     batches |-> wire[t][s].batches + 1,
                     batch |-> [sampled |-> me.batch_size,
                                remaining |-> me.rows_to_send - me.rows_sent,
                                rows |-> me.actual_batch_size]])
            ELSE SenderStep(t, s,
                    [pc |-> "failed", client |-> FALSE, result |-> result],
                    [calls |-> Append(calls, "close"),
                     flush_failed |-> flush_failed])
    /\ UNCHANGED <<arith, generator, settings, main, table, counter>>

\* blasting.rs:142-147: count the batch, locally and in the shared counter
run_count(t, s) ==
    LET me == sender[t][s] IN
    /\ me.pc = "count"
    /\ \E build \in Builds :
          IF add_u16(me.batches_sent, 1).overflow /\ build = "checked"
          THEN /\ SenderStep(t, s,
                     [pc |-> "panicked", client |-> FALSE,
                      rows_sent |-> me.rows_sent + me.actual_batch_size],
                     [calls |-> Dropped(me.client, wire[t][s].calls)])
               /\ UNCHANGED counter
          ELSE /\ SenderStep(t, s,
                     [pc |-> "keepalive",
                      rows_sent |-> me.rows_sent + me.actual_batch_size,
                      batches_sent |-> add_u16(me.batches_sent, 1).value],
                     [added |-> wire[t][s].added + me.actual_batch_size])
               /\ counter' = [counter EXCEPT ![t] = fetch_add(@, me.actual_batch_size)]
    /\ UNCHANGED <<arith, generator, settings, main, table>>

\* blasting.rs:154-169: close the connection once it carried enough batches
run_keepalive(t, s) ==
    LET me == sender[t][s]
        keepalive == Config(t).send.batches_connection_keepalive
    IN
    /\ me.pc = "keepalive"
    /\ IF keepalive_reached(me.batches_sent, keepalive)
       THEN IF me.client
            THEN \E flush_failed \in BOOLEAN :
                    SenderStep(t, s,
                        [pc |-> "pause", client |-> FALSE, batches_sent |-> 0],
                        [calls |-> wire[t][s].calls \o <<"flush_keepalive", "close">>,
                         flush_failed |-> wire[t][s].flush_failed \/ flush_failed,
                         buffered |-> 0])
            ELSE SenderStep(t, s, [pc |-> "pause", batches_sent |-> 0], <<>>)
       ELSE SenderStep(t, s, [pc |-> "pause"], <<>>)
    /\ UNCHANGED <<arith, generator, settings, main, table, counter>>

\* blasting.rs:171-180: sleep unless the quota is exhausted
run_pause(t, s) ==
    LET me == sender[t][s]
        batch_pause == Config(t).send.batch_pause
    IN
    /\ me.pc = "pause"
    /\ IF me.rows_sent < me.rows_to_send
       THEN IF batch_pause[1] > batch_pause[2]
            THEN SenderStep(t, s,
                    [pc |-> "panicked", client |-> FALSE],
                    [calls |-> Dropped(me.client, wire[t][s].calls)])
            ELSE SenderStep(t, s,
                    [pc |-> "loop"],
                    [calls |-> Append(wire[t][s].calls, "sleep")])
       ELSE SenderStep(t, s, [pc |-> "loop"], <<>>)
    /\ UNCHANGED <<arith, generator, settings, main, table, counter>>

\* blasting.rs:119, 182-193: the loop condition fails; final flush and return
run_final_flush(t, s) ==
    LET me == sender[t][s] IN
    /\ me.pc = "loop"
    /\ ~rows_remain(me.rows_sent, me.rows_to_send)
    /\ IF me.client
       THEN \E flushed \in BOOLEAN :
              LET result == final_flush_result(flushed) IN
              SenderStep(t, s,
                  [pc |-> IF result.ok THEN "ok" ELSE "failed",
                   client |-> FALSE, result |-> result],
                  [calls |-> wire[t][s].calls \o
                      <<IF flushed THEN "flush_final" ELSE "flush_final_failed",
                        "close">>,
                   flush_failed |-> wire[t][s].flush_failed \/ ~flushed,
                   buffered |-> IF flushed THEN 0 ELSE wire[t][s].buffered])
       ELSE SenderStep(t, s, [pc |-> "ok", result |-> Ok], <<>>)
    /\ UNCHANGED <<arith, generator, settings, main, table, counter>>

Terminated(t, s) == sender[t][s].pc \in {"ok", "failed", "panicked"}

(***************************************************************************)
(* blast_table, blasting.rs:263-358, as the steps of the thread of table t *)
(***************************************************************************)
TableStep(t, changes) == table' = [table EXCEPT ![t] = With(@, changes)]

\* blasting.rs:264-267
blast_table_validate(t) ==
    LET valid == validate_names(t, Config(t)) IN
    /\ table[t].pc = "validate"
    /\ IF valid.ok
       THEN TableStep(t, [pc |-> "provision"])
       ELSE TableStep(t, [pc |-> "done", result |-> valid])
    /\ UNCHANGED <<arith, generator, settings, main, counter, sender, wire>>

\* blasting.rs:391-392  Client::connect(...).context(...)?
connect_result(connected) ==
    IF connected THEN Ok
    ELSE Err(Error("Failed to connect to PostgreSQL", "", <<>>))

\* a failed drop ignored: the table is created all the same
drop_result_ignored(t, dropped) == Ok

\* blasting.rs:395-398  client.execute(&drop_sql, &[]).with_context(...)?
drop_result(t, dropped) ==
    IF dropped THEN Ok ELSE Err(Error("Failed to drop table", t, <<>>))

\* blasting.rs:420-425  client.execute(&create_sql, &[]).with_context(...)?
create_result(t, created) ==
    IF created THEN Ok ELSE Err(Error("Failed to create table", t, <<>>))

\* a call of drop_and_create_table has succeeded or not and its result is
\* result: the call is logged as the server saw it, and an error result ends
\* the table run (blasting.rs:270)
AdminStep(t, call, succeeded, result, next) ==
    TableStep(t, [pc |-> IF result.ok THEN next ELSE "done",
                  admin |-> Append(table[t].admin,
                                   IF succeeded THEN call ELSE call \o "_failed"),
                  result |-> result])

\* blasting.rs:270, 391-392: connect to the administrative endpoint
drop_and_create_table_connect(t) ==
    /\ table[t].pc = "provision"
    /\ \E connected \in BOOLEAN :
          AdminStep(t, "connect", connected, connect_result(connected), "connected")
    /\ UNCHANGED <<arith, generator, settings, main, counter, sender, wire>>

\* blasting.rs:394-398: DROP TABLE IF EXISTS
drop_and_create_table_drop(t) ==
    /\ table[t].pc = "connected"
    /\ \E dropped \in BOOLEAN :
          AdminStep(t, "drop", dropped, drop_result(t, dropped), "dropped")
    /\ UNCHANGED <<arith, generator, settings, main, counter, sender, wire>>

\* blasting.rs:400-429: CREATE TABLE
drop_and_create_table_create(t) ==
    /\ table[t].pc = "dropped"
    /\ \E created \in BOOLEAN :
          AdminStep(t, "create", created, create_result(t, created), "distribute")
    /\ UNCHANGED <<arith, generator, settings, main, counter, sender, wire>>

\* blasting.rs:272-284: base and extra rows (a division by zero panics) and
\* the shared counter
blast_table_distribute(t) ==
    LET total_rows == Config(t).send.tot_rows
        parallel_senders == Config(t).send.parallel_senders
    IN
    /\ table[t].pc = "distribute"
    /\ IF parallel_senders = 0
       THEN /\ TableStep(t, [pc |-> "panicked"])
            /\ UNCHANGED counter
       ELSE /\ TableStep(t,
                  [pc |-> "spawn",
                   base_rows_per_sender |->
                       base_rows_per_sender(total_rows, parallel_senders),
                   extra_rows |-> extra_rows(total_rows, parallel_senders),
                   sender_id |-> 0])
            /\ counter' = [counter EXCEPT ![t] = 0]
    /\ UNCHANGED <<arith, generator, settings, main, sender, wire>>

\* blasting.rs:288-335: one iteration of the spawn loop
blast_table_spawn(t) ==
    LET me == table[t]
        sender_id == me.sender_id
        columns == classify_columns(Config(t).schema, Config(t).designated_ts,
                                    1, <<>>, <<>>)
    IN
    /\ me.pc = "spawn"
    /\ sender_id < Config(t).send.parallel_senders
    /\ sender' = [sender EXCEPT ![t][sender_id] =
          With(@, [pc |-> "spawned",
                   sender_id |-> sender_id,
                   rows_to_send |->
                       rows_for_this_sender(sender_id, me.base_rows_per_sender,
                                            me.extra_rows),
                   symbol_columns |-> columns.symbol_columns,
                   field_columns |-> columns.field_columns])]
    /\ TableStep(t, [sender_id |-> sender_id + 1,
                     pc |-> IF sender_id + 1 < Config(t).send.parallel_senders
                            THEN "spawn" ELSE "join"])
    /\ UNCHANGED <<arith, generator, settings, main, counter, wire>>

\* a panicked thread not collected
joined_errors_without_panics(thread) ==
    IF thread.pc = "failed" THEN <<thread.result.err>> ELSE <<>>

\* the error blast_table collects for a joined sender thread, blasting.rs:340-344
joined_errors(thread) ==
    CASE thread.pc = "ok" -> <<>>
      [] thread.pc = "failed" -> <<thread.result.err>>
      [] thread.pc = "panicked" -> <<Error("Thread panicked", "", <<>>)>>

\* blasting.rs:337-345: join the next handle, once its thread has ended
blast_table_join(t) ==
    LET me == table[t] IN
    /\ me.pc = "join"
    /\ me.joined < Config(t).send.parallel_senders
    /\ Terminated(t, me.joined)
    /\ TableStep(t, [joined |-> me.joined + 1,
                     errors |-> me.errors \o joined_errors(sender[t][me.joined])])
    /\ UNCHANGED <<arith, generator, settings, main, counter, sender, wire>>

\* blasting.rs:347-357
blast_table_finish(t) ==
    LET me == table[t] IN
    /\ me.pc = "join"
    /\ me.joined = Config(t).send.parallel_senders
    /\ IF me.errors # <<>>
       THEN TableStep(t, [pc |-> "done",
                          result |-> Err(Error("Some senders failed", "", me.errors))])
       ELSE TableStep(t, [pc |-> "done", result |-> Ok,
                          final_count |-> counter[t]])
    /\ UNCHANGED <<arith, generator, settings, main, counter, sender, wire>>

TableEnded(t) == table[t].pc \in {"done", "panicked"}

(***************************************************************************)
(* main, main.rs:33-74                                                     *)
(***************************************************************************)
Spawned(t) == \E i \in 1..Len(main.handles) : main.handles[i] = t

\* main.rs:35-49: one iteration over settings.tables (a HashMap: any order)
main_spawn(t) ==
    /\ main.pc = "run"
    /\ ~Spawned(t)
    /\ main' = [main EXCEPT !.handles = Append(@, t)]
    /\ TableStep(t, [pc |-> "validate"])
    /\ UNCHANGED <<arith, generator, settings, counter, sender, wire>>

\* a panicked table thread not collected
table_errors_without_panics(table_name, thread) ==
    IF thread.pc # "panicked" /\ ~thread.result.ok
    THEN <<[table |-> table_name, error |-> thread.result.err]>>
    ELSE <<>>

\* the error main collects for a joined table thread, main.rs:54-66
table_errors(table_name, thread) ==
    IF thread.pc = "panicked"
    THEN <<[table |-> table_name, error |-> Error("thread panicked", "", <<>>)]>>
    ELSE IF thread.result.ok THEN <<>>
    ELSE <<[table |-> table_name, error |-> thread.result.err]>>

\* main.rs:52-67: join the next handle, once its thread has ended
main_join ==
    LET t == main.handles[main.joined + 1] IN
    /\ main.pc = "run"
    /\ \A u \in Tables : Spawned(u)
    /\ main.joined < Len(main.handles)
    /\ TableEnded(t)
    /\ main' = [main EXCEPT !.joined = @ + 1,
                            !.errors = @ \o table_errors(t, table[t])]
    /\ UNCHANGED <<arith, generator, settings, table, counter, sender, wire>>

\* main.rs:69-74
main_finish ==
    /\ main.pc = "run"
    /\ \A u \in Tables : Spawned(u)
    /\ main.joined = Len(main.handles)
    /\ main' = [main EXCEPT !.pc = "done",
                            !.result = IF main.errors # <<>>
                                       THEN Err(Error("Some tables failed", "", main.errors))
                                       ELSE Ok]
    /\ UNCHANGED <<arith, generator, settings, table, counter, sender, wire>>

(***************************************************************************)
(* The specifications: every thread may take its next step at any time.    *)
(***************************************************************************)
\* blasting.rs:143  batches_sent += 1, once per iteration of the loop of run
count_batch ==
    LET sum == add_u16(arith.batches_sent, 1) IN
    /\ arith.pc = "loop"
    /\ IF sum.overflow
       THEN \E build \in Builds :
              arith' = IF build = "checked"
                       THEN With(arith, [pc |-> "panicked", overflow |-> TRUE])
                       ELSE With(arith, [pc |-> "keepalive", overflow |-> TRUE,
                                         batches_sent |-> sum.value])
       ELSE arith' = With(arith, [pc |-> "keepalive", batches_sent |-> sum.value])
    /\ UNCHANGED <<generator, settings, main, table, counter, sender, wire>>

\* blasting.rs:155-169  the keepalive test and the reset of batches_sent
keepalive_check ==
    /\ arith.pc = "keepalive"
    /\ arith' = With(arith,
          [pc |-> "loop",
           batches_sent |-> IF keepalive_reached(arith.batches_sent, arith.keepalive)
                            THEN 0 ELSE arith.batches_sent])
    /\ UNCHANGED <<generator, settings, main, table, counter, sender, wire>>

\* blasting.rs:129-130  the sampled batch size clipped to the rows that remain
clip_batch_size ==
    /\ arith.pc = "clip"
    /\ arith' = With(arith,
          [pc |-> "clipped",
           actual_batch_size |->
               clipped_batch_size(arith.batch_size, arith.rows_remaining)])
    /\ UNCHANGED <<generator, settings, main, table, counter, sender, wire>>

\* blasting.rs:275-276, 290  the extra rows and extra_rows as u16; a division
\* by zero panics
distribute_rows ==
    /\ arith.pc = "distribute"
    /\ IF arith.parallel_senders = 0
       THEN arith' = With(arith, [pc |-> "panicked"])
       ELSE arith' = With(arith,
              [pc |-> "distributed",
               extra_rows |-> extra_rows(arith.total_rows, arith.parallel_senders),
               extra_rows_as_u16 |->
                   as_u16(extra_rows(arith.total_rows, arith.parallel_senders))])
    /\ UNCHANGED <<generator, settings, main, table, counter, sender, wire>>

NextWidth == count_batch \/ keepalive_check \/ clip_batch_size \/ distribute_rows

Next ==
    \/ \E t \in Tables : main_spawn(t)
    \/ main_join
    \/ main_finish
    \/ \E t \in Tables : blast_table_validate(t)
    \/ \E t \in Tables : drop_and_create_table_connect(t)
    \/ \E t \in Tables : drop_and_create_table_drop(t)
    \/ \E t \in Tables : drop_and_create_table_create(t)
    \/ \E t \in Tables : blast_table_distribute(t)
    \/ \E t \in Tables : blast_table_spawn(t)
    \/ \E t \in Tables : blast_table_join(t)
    \/ \E t \in Tables : blast_table_finish(t)
    \/ \E t \in Tables, s \in SenderIds : run_start(t, s)
    \/ \E t \in Tables, s \in SenderIds : run_begin_batch(t, s)
    \/ \E t \in Tables, s \in SenderIds : send_batch_row(t, s)
    \/ \E t \in Tables, s \in SenderIds : send_batch_flush(t, s)
    \/ \E t \in Tables, s \in SenderIds : run_count(t, s)
    \/ \E t \in Tables, s \in SenderIds : run_keepalive(t, s)
    \/ \E t \in Tables, s \in SenderIds : run_pause(t, s)
    \/ \E t \in Tables, s \in SenderIds : run_final_flush(t, s)

\* one table with up to MaxSenders senders
Spec == Init /\ [][Next]_vars

\* one table with one sender
SpecUnit == InitUnit /\ [][Next]_vars

\* two tables
SpecRun == InitRun /\ [][Next]_vars

\* the fixed-width values, at full width
SpecWidth == InitWidth /\ [][NextWidth]_vars

(***************************************************************************)
(* Properties.                                                             *)
(***************************************************************************)
SendersOf(t) == 0..(Config(t).send.parallel_senders - 1)

\* blast_table has spawned every sender of table t
AllSpawned(t) ==
    /\ table[t].pc \in {"join", "done"}
    /\ Config(t).send.parallel_senders >= 1
    /\ table[t].sender_id = Config(t).send.parallel_senders

RECURSIVE QuotaSum(_, _)
QuotaSum(t, n) ==
    IF n = 0 THEN 0 ELSE sender[t][n - 1].rows_to_send + QuotaSum(t, n - 1)

\* C1: every spawned sender i is assigned tot_rows / parallel_senders rows,
\* plus one when i < tot_rows % parallel_senders; once all are spawned the
\* quotas sum to tot_rows and no two quotas differ by more than 1.
C1_Distribution ==
    \A t \in Tables :
        LET total_rows == Config(t).send.tot_rows
            sender_count == Config(t).send.parallel_senders
        IN
        /\ \A i \in SenderIds :
              sender[t][i].pc # "unspawned" =>
                 sender[t][i].rows_to_send =
                    IF i < total_rows % sender_count
                    THEN (total_rows \div sender_count) + 1
                    ELSE total_rows \div sender_count
        /\ AllSpawned(t) =>
              /\ QuotaSum(t, sender_count) = total_rows
              /\ \A i, j \in SendersOf(t) :
                    sender[t][i].rows_to_send - sender[t][j].rows_to_send <= 1

\* all senders of a table are spawned and the rows do not divide evenly
C1_Witness ==
    \E t \in Tables :
        /\ AllSpawned(t)
        /\ Config(t).send.parallel_senders >= 2
        /\ Config(t).send.tot_rows % Config(t).send.parallel_senders # 0

\* C2: whenever every sender of a table has run to completion, each has added
\* exactly its quota to the counter and the counter holds tot_rows; the value
\* blast_table loads at the end is tot_rows.
C2_CounterTotal ==
    \A t \in Tables :
        /\ (AllSpawned(t) /\ \A s \in SendersOf(t) : sender[t][s].pc = "ok") =>
              /\ \A s \in SendersOf(t) : wire[t][s].added = sender[t][s].rows_to_send
              /\ counter[t] = Config(t).send.tot_rows
        /\ (table[t].pc = "done" /\ table[t].result.ok) =>
              table[t].final_count = Config(t).send.tot_rows

\* two senders, each with rows to send, completed and blast_table returned
C2_Witness ==
    \E t \in Tables :
        /\ table[t].pc = "done"
        /\ table[t].result.ok
        /\ Config(t).send.parallel_senders >= 2
        /\ \A s \in SendersOf(t) : sender[t][s].pc = "ok" /\ wire[t][s].added >= 1

FieldCalls == {"column_i64", "column_f64", "column_ts"}

\* the buffer call the claim names for a field column of each type
C3_FieldCall(col_type) ==
    CASE col_type = "Long" -> "column_i64"
      [] col_type = "Double" -> "column_f64"
      [] col_type = "Timestamp" -> "column_ts"

\* the i-th buffer call of a row of table t built by the sender me
C3_Call(t, me, i) ==
    LET symbols == Len(me.symbol_columns)
        fields == Len(me.field_columns)
    IN  IF i = 1 THEN BufferOp("table", t)
        ELSE IF i <= 1 + symbols THEN BufferOp("symbol", me.symbol_columns[i - 1])
        ELSE IF i <= 1 + symbols + fields
        THEN BufferOp(C3_FieldCall(me.field_columns[i - 1 - symbols][2]),
                      me.field_columns[i - 1 - symbols][1])
        ELSE BufferOp("at", "")

\* C3: the buffer calls of every row are: begin the row for the table, one
\* symbol write per symbol column in list order, one field write per field
\* column in list order with the call of its type, then one designated
\* timestamp; a row cut short by a failing call is a prefix of that.  No
\* symbol write follows a field write and nothing follows the designated
\* timestamp.  Every row counted as built is complete.
C3_RowOrder ==
    \A t \in Tables, s \in SenderIds :
        LET row == wire[t][s].last_row
            me == sender[t][s]
            complete == 2 + Len(me.symbol_columns) + Len(me.field_columns)
        IN
        /\ Len(row) <= complete
        /\ \A i \in 1..Len(row) : row[i] = C3_Call(t, me, i)
        /\ \A i, j \in 1..Len(row) :
              i < j => /\ ~(row[i].op \in FieldCalls /\ row[j].op = "symbol")
                       /\ row[i].op # "at"
                       /\ row[j].op # "table"
        /\ (wire[t][s].rows > 0 /\ me.pc \notin {"failed", "panicked"}) =>
              /\ Len(row) = complete
              /\ row[complete].op = "at"

\* a sender with two symbol and two field columns, declared fields first,
\* has built two complete rows
C3_Witness ==
    \E t \in Tables, s \in SenderIds :
        /\ Config(t).schema = SchemaMixed
        /\ wire[t][s].rows = 2
        /\ Len(wire[t][s].last_row) = 6
        /\ wire[t][s].last_row[6].op = "at"

Count(calls, call) == Cardinality({i \in 1..Len(calls) : calls[i] = call})

\* C4: each row a sender emits after its first carries a designated timestamp
\* greater than that of the row before it, by an increment in [1ms, 10ms),
\* within a batch, across batches and across connections; no other step
\* changes the timestamp last emitted.
C4_TimestampsIncrease ==
    [][\A t \in Tables, s \in SenderIds :
          /\ wire'[t][s].rows \in {wire[t][s].rows, wire[t][s].rows + 1}
          /\ wire'[t][s].rows = wire[t][s].rows =>
                wire'[t][s].last_at = wire[t][s].last_at
          /\ (wire'[t][s].rows = wire[t][s].rows + 1 /\ wire[t][s].rows >= 1) =>
                /\ wire'[t][s].last_at > wire[t][s].last_at
                /\ wire'[t][s].last_at - wire[t][s].last_at >= INCREMENT_START
                /\ wire'[t][s].last_at - wire[t][s].last_at < INCREMENT_END
      ]_vars

\* a sender emitted a row on its third connection, after rows on earlier ones
C4_Witness ==
    \E t \in Tables, s \in SenderIds :
        /\ Count(wire[t][s].calls, "connect") = 3
        /\ Count(wire[t][s].calls, "close") = 2
        /\ wire[t][s].rows >= 4
        /\ wire[t][s].buffered >= 1

\* the table name, a column name or the designated timestamp name of table t
\* breaks the identifier rules
C5_InvalidNames(t) ==
    ({t} \cap InvalidTableNames)
        \cup (({Config(t).schema[i][1] : i \in 1..Len(Config(t).schema)}
                  \cup {Config(t).designated_ts}) \cap InvalidColumnNames)

\* C5: a table run whose table name, column names or designated timestamp
\* name break the identifier rules never calls the administrative client,
\* spawns no sender and opens no ingestion connection; when it has returned
\* it has returned a failure that names an offending identifier.
C5_ValidationFirst ==
    \A t \in Tables :
        C5_InvalidNames(t) # {} =>
            /\ table[t].pc \in {"unspawned", "validate", "done"}
            /\ table[t].admin = <<>>
            /\ \A s \in SenderIds :
                  sender[t][s].pc = "unspawned" /\ wire[t][s].calls = <<>>
            /\ table[t].pc = "done" =>
                  /\ ~table[t].result.ok
                  /\ table[t].result.err.name \in C5_InvalidNames(t)

\* a table run with a valid table name and valid column names has returned
\* the failure of the designated timestamp name
C5_Witness ==
    \E t \in Tables :
        /\ table[t].pc = "done"
        /\ table[t].result.err.msg = "Invalid designated timestamp column name"
        /\ table[t].result.err.name = Config(t).designated_ts

\* C6: every batch a sender flushed has the size min(sampled, remaining), the
\* sampled size being in the configured range, and the rows sent never exceed
\* the quota.  With a fixed size b >= 1 and quota q the n-th batch has b rows
\* for n <= q / b and q % b rows after that, and a completed sender has sent
\* q / b batches, plus one when q % b is not 0.
C6_BatchSizes ==
    \A t \in Tables, s \in SenderIds :
        LET me == sender[t][s]
            last == wire[t][s].batch
            n == wire[t][s].batches
            range == Config(t).send.batch_size
            b == range[1]
            q == me.rows_to_send
        IN
        /\ me.rows_sent <= q
        /\ wire[t][s].added <= q
        /\ n >= 1 =>
              /\ last.sampled >= range[1]
              /\ last.sampled <= range[2]
              /\ last.rows = IF last.sampled <= last.remaining
                             THEN last.sampled ELSE last.remaining
        /\ (range[1] = range[2] /\ b >= 1 /\ n >= 1) =>
              /\ last.rows = IF n <= q \div b THEN b ELSE q % b
              /\ last.rows >= 1
        /\ (range[1] = range[2] /\ b >= 1 /\ me.pc = "ok") =>
              n = (q \div b) + (IF q % b # 0 THEN 1 ELSE 0)

\* 25 rows in batches of 10: the third and last batch has 5 rows
C6_Witness ==
    \E t \in Tables, s \in SenderIds :
        /\ Config(t).send.batch_size = <<10, 10>>
        /\ sender[t][s].rows_to_send = 25
        /\ sender[t][s].pc = "ok"
        /\ wire[t][s].batches = 3
        /\ wire[t][s].batch.rows = 5

\* the largest index of calls that holds one of the given calls, or 0
LastIndex(calls, given) ==
    LET found == {i \in 1..Len(calls) : calls[i] \in given} IN
    IF found = {} THEN 0 ELSE CHOOSE i \in found : \A j \in found : j <= i

\* a connection is open after the first n calls
OpenAfter(calls, n) ==
    LET before == SubSeq(calls, 1, n) IN
    LastIndex(before, {"connect"}) > LastIndex(before, {"close"})

\* the batches flushed on the connection that is the latest after n calls
BatchesOnConnection(calls, n) ==
    Cardinality({i \in (LastIndex(SubSeq(calls, 1, n), {"connect"}) + 1)..n :
                    calls[i] = "flush_batch"})

Flushes ==
    {"flush_batch", "flush_batch_failed", "flush_keepalive", "flush_final",
     "flush_final_failed"}

\* C7: with a keepalive threshold K >= 1 no connection carries more than K
\* batches: the connection is flushed and closed right after the K-th batch
\* sent on it, and the next batch is sent on a new connection.  Every flush
\* is made on an open connection and a sender that has returned has no open
\* connection.  With K = 2 and 5 batches of one row the calls are exactly:
\* connect, 2 batches, flush and close, connect, 2 batches, flush and close,
\* connect, 1 batch, final flush, close.
C7_Keepalive ==
    \A t \in Tables, s \in SenderIds :
        LET me == sender[t][s]
            calls == wire[t][s].calls
            K == Config(t).send.batches_connection_keepalive
        IN
        /\ me.client = OpenAfter(calls, Len(calls))
        /\ \A i \in 1..Len(calls) :
              calls[i] \in Flushes => OpenAfter(calls, i)
        /\ Terminated(t, s) =>
              ~me.client /\ Count(calls, "connect") = Count(calls, "close")
        /\ K >= 1 =>
              /\ \A i \in 1..Len(calls) : BatchesOnConnection(calls, i) <= K
              /\ \A i \in 1..Len(calls) :
                    calls[i] = "flush_keepalive" =>
                        /\ calls[i - 1] = "flush_batch"
                        /\ BatchesOnConnection(calls, i) = K
                        /\ i < Len(calls)
                        /\ calls[i + 1] = "close"
              /\ (me.pc \in {"pause", "loop", "rows"} /\ me.client) =>
                    BatchesOnConnection(calls, Len(calls)) < K
        /\ (K = 2 /\ Config(t).send.batch_size = <<1, 1>>
               /\ me.rows_to_send = 5 /\ me.pc = "ok") =>
              calls = << "connect", "flush_batch", "sleep", "flush_batch",
                         "flush_keepalive", "close", "sleep",
                         "connect", "flush_batch", "sleep", "flush_batch",
                         "flush_keepalive", "close", "sleep",
                         "connect", "flush_batch", "flush_final", "close" >>

\* a sender with threshold 2 has sent 5 batches of one row and returned
C7_Witness ==
    \E t \in Tables, s \in SenderIds :
        /\ Config(t).send.batches_connection_keepalive = 2
        /\ Config(t).send.batch_size = <<1, 1>>
        /\ sender[t][s].rows_to_send = 5
        /\ sender[t][s].pc = "ok"
        /\ wire[t][s].batches = 5
        /\ Count(wire[t][s].calls, "close") = 3

\* the flush of a batch of sender s of table t has failed
BatchFlushFailed(t, s) == Count(wire[t][s].calls, "flush_batch_failed") >= 1

\* C8: once the flush of a batch of a sender has failed, the sender has
\* returned the failure of that flush, the rows it added to the counter are
\* the rows of the batches flushed before (the rows it built less the rows of
\* the failed batch), and it takes no further step: it makes no further call
\* and adds nothing more.  With a quota of 5 rows and batches of one row, a
\* failure on the second batch leaves exactly 1 row added.
C8_FlushFailureAborts ==
    [][\A t \in Tables, s \in SenderIds :
          /\ BatchFlushFailed(t, s)' =>
                /\ sender'[t][s].pc = "failed"
                /\ ~sender'[t][s].result.ok
                /\ sender'[t][s].result.err.msg = "Failed to flush batch to QuestDB"
                /\ Count(wire'[t][s].calls, "flush_batch_failed") = 1
                /\ wire'[t][s].added = wire'[t][s].rows - sender'[t][s].actual_batch_size
                /\ wire'[t][s].added = sender'[t][s].rows_sent
                /\ (Config(t).send.parallel_senders = 1) =>
                      counter'[t] = wire'[t][s].added
                /\ (Config(t).send.batch_size = <<1, 1>>) =>
                      wire'[t][s].added = wire'[t][s].batches
          /\ BatchFlushFailed(t, s) =>
                /\ sender'[t][s] = sender[t][s]
                /\ wire'[t][s] = wire[t][s]
                /\ counter'[t] = counter[t]
      ]_vars

\* quota 5, one row per batch, the flush of the second batch failed after
\* the first batch was counted
C8_Witness ==
    \E t \in Tables, s \in SenderIds :
        /\ BatchFlushFailed(t, s)
        /\ sender[t][s].rows_to_send = 5
        /\ Config(t).send.batch_size = <<1, 1>>
        /\ wire[t][s].batches = 1
        /\ wire[t][s].added = 1
        /\ counter[t] = 1

\* the senders of table t that returned an error or panicked
FailedSenders(t) ==
    {s \in SendersOf(t) : sender[t][s].pc \in {"failed", "panicked"}}

\* blast_table returned at validate_names or drop_and_create_table
\* (blasting.rs:267, 270): a name is invalid, or the last administrative call
\* failed
FailedBeforeSpawn(t) ==
    \/ ~validate_names(t, Config(t)).ok
    \/ /\ table[t].admin # <<>>
       /\ table[t].admin[Len(table[t].admin)]
              \in {"connect_failed", "drop_failed", "create_failed"}

\* the senders of table t that blast_table has spawned
SpawnedSenders(t) == {s \in SendersOf(t) : sender[t][s].pc # "unspawned"}

\* C9: blast_table joins its senders in order, each only once it has ended,
\* and returns only after every spawned sender has ended.  It returns a
\* failure if and only if validation or provisioning failed or a sender
\* returned an error or panicked.  In the first case no sender was spawned
\* and the failure is that of the failed call; otherwise every sender was
\* spawned and the failure lists one error per failed sender.  The step in
\* which a sender fails changes nothing of its siblings, and every sibling
\* that did not fail has sent its whole quota when the table run returns.
C9_Aggregation ==
    [][\A t \in Tables :
          /\ table'[t].pc = "join" =>
                \A s \in 0..(table'[t].joined - 1) : Terminated(t, s)'
          /\ table'[t].pc = "done" =>
                /\ \A s \in SpawnedSenders(t)' : Terminated(t, s)'
                /\ ~table'[t].result.ok <=>
                      (FailedBeforeSpawn(t)' \/ FailedSenders(t)' # {})
                /\ IF FailedBeforeSpawn(t)'
                   THEN /\ SpawnedSenders(t)' = {}
                        /\ table'[t].result.err.causes = <<>>
                   ELSE /\ AllSpawned(t)'
                        /\ ~table'[t].result.ok =>
                              /\ table'[t].result.err.msg = "Some senders failed"
                              /\ Len(table'[t].result.err.causes) =
                                    Cardinality(FailedSenders(t)')
                        /\ \A s \in SendersOf(t) \ FailedSenders(t)' :
                              /\ sender'[t][s].pc = "ok"
                              /\ sender'[t][s].rows_sent = sender'[t][s].rows_to_send
          /\ \A s \in SenderIds :
                (s \in FailedSenders(t)' /\ s \notin FailedSenders(t)) =>
                    \A u \in SenderIds \ {s} :
                        /\ sender'[t][u] = sender[t][u]
                        /\ wire'[t][u] = wire[t][u]
      ]_vars

\* a table run returned the failure of one sender while the other sender
\* had sent its rows
C9_Witness ==
    \E t \in Tables :
        /\ table[t].pc = "done"
        /\ Len(table[t].result.err.causes) = 1
        /\ \E s, u \in SendersOf(t) :
              /\ sender[t][s].pc = "failed"
              /\ sender[t][u].pc = "ok"
              /\ wire[t][u].added >= 1

\* C9 as claimed: blast_table returns only after every spawned sender has
\* ended, and it returns a failure if and only if a sender returned an error
\* or panicked, the failure holding one entry per failed sender.
C9_FailureOnlyFromSenders ==
    \A t \in Tables :
        table[t].pc = "done" =>
            /\ \A s \in SpawnedSenders(t) : Terminated(t, s)
            /\ ~table[t].result.ok <=> FailedSenders(t) # {}
            /\ ~table[t].result.ok =>
                  Len(table[t].result.err.causes) = Cardinality(FailedSenders(t))

\* the ways a sender thread can end
ThreadEnds ==
    {[pc |-> "ok", result |-> Ok], [pc |-> "panicked", result |-> Ok]}
        \cup {[pc |-> "failed", result |-> Err(Error(msg, "", <<>>))] :
                msg \in {"Failed to create QuestDB ILP sender",
                         "ingestion buffer error",
                         "Failed to flush batch to QuestDB",
                         "Failed to flush final batch"}}

\* the errors blast_table collects when senders 0..n-1 end as threads says
RECURSIVE CollectedErrors(_, _)
CollectedErrors(threads, n) ==
    IF n = 0 THEN <<>>
    ELSE CollectedErrors(threads, n - 1) \o joined_errors(threads[n - 1])

\* C10: the failure a table run returns identifies the senders that failed:
\* no other set of failed senders yields the same list of errors.
C10_FailuresIdentified ==
    \A t \in Tables :
        (AllSpawned(t) /\ table[t].pc = "done" /\ ~table[t].result.ok) =>
            \A threads \in [SendersOf(t) -> ThreadEnds] :
                CollectedErrors(threads, Config(t).send.parallel_senders)
                        = table[t].result.err.causes
                    => {s \in SendersOf(t) : threads[s].pc # "ok"} = FailedSenders(t)

\* the tables whose run returned a failure or panicked
FailedTables ==
    {t \in Tables : table[t].pc = "panicked"
                       \/ (table[t].pc = "done" /\ ~table[t].result.ok)}

\* C11: main starts one thread per configured table and returns only after
\* every table run has ended; no step changes the state of two table runs, so
\* a table run that fails or panics changes nothing of another; the result of
\* main is an error if and only if a table run failed or panicked, and the
\* error then names exactly the failed tables, once each.
C11_RunAggregation ==
    [][/\ \A t, u \in Tables :
            (t # u /\ (table'[t] # table[t] \/ sender'[t] # sender[t]
                          \/ wire'[t] # wire[t] \/ counter'[t] # counter[t])) =>
                /\ table'[u] = table[u]
                /\ sender'[u] = sender[u]
                /\ wire'[u] = wire[u]
                /\ counter'[u] = counter[u]
       /\ \A i, j \in 1..Len(main'.handles) :
            main'.handles[i] = main'.handles[j] => i = j
       /\ \A i \in 1..main'.joined :
            table'[main'.handles[i]].pc \in {"done", "panicked"}
       /\ main'.pc = "done" =>
            /\ \A t \in Tables : Spawned(t)' /\ TableEnded(t)'
            /\ main'.result.ok <=> FailedTables' = {}
            /\ ~main'.result.ok =>
                  /\ {main'.result.err.causes[i].table :
                         i \in 1..Len(main'.result.err.causes)} = FailedTables'
                  /\ Len(main'.result.err.causes) = Cardinality(FailedTables')
      ]_vars

\* main returned the failure of one table while the other table had sent
\* its row
C11_Witness ==
    /\ main.pc = "done"
    /\ Len(main.result.err.causes) = 1
    /\ \E t, u \in Tables :
          /\ t \in FailedTables
          /\ table[u].pc = "done"
          /\ table[u].result.ok
          /\ table[u].final_count = 1

\* the failures sender s of table t has met at a connect, a batch flush or
\* the final flush
ReturnedFailures(calls) ==
    Count(calls, "connect_failed") + Count(calls, "flush_batch_failed")
        + Count(calls, "flush_final_failed")

\* C12: every connect, encoding or flush failure of a sender, the
\* flush before a keepalive close and the final flush included, makes the
\* sender return a failure: no sender that met one reports success.
C12_NoFailureSwallowed ==
    \A t \in Tables : \A s \in SenderIds :
        sender[t][s].pc = "ok" =>
            /\ ~wire[t][s].flush_failed
            /\ ReturnedFailures(wire[t][s].calls) = 0

\* nothing of the ingestion side of table t has happened: no sender thread
\* exists, no call was made on an ingestion client, no row was counted
NothingSent(t) ==
    /\ \A s \in SenderIds :
          /\ sender[t][s].pc = "unspawned"
          /\ wire[t][s].calls = <<>>
          /\ wire[t][s].rows = 0
    /\ counter[t] <= 0

\* C13: a table run validates, then connects to the administrative endpoint,
\* drops, creates, and only then spawns its first sender: the administrative
\* calls are made once, in this order, none before the names are validated; a
\* failed connect, drop or create is the last administrative call (a failed
\* drop is not followed by a create) and ends the table run with a failure,
\* no sender spawned and no row sent; a sender exists or an ingestion
\* connection is opened only after the create succeeded.
C13_ProvisioningOrder ==
    [][\A t \in Tables :
         LET admin == table'[t].admin
             failed == admin # <<>> /\ admin[Len(admin)] \in
                          {"connect_failed", "drop_failed", "create_failed"}
         IN
         /\ admin # table[t].admin =>
               /\ Len(admin) = Len(table[t].admin) + 1
               /\ SubSeq(admin, 1, Len(table[t].admin)) = table[t].admin
         /\ admin \in {<<>>, <<"connect_failed">>, <<"connect">>,
                       <<"connect", "drop_failed">>, <<"connect", "drop">>,
                       <<"connect", "drop", "create_failed">>,
                       <<"connect", "drop", "create">>}
         /\ admin # <<>> => validate_names(t, Config(t)).ok
         /\ table'[t].pc \in {"unspawned", "validate", "provision"} => admin = <<>>
         /\ table'[t].pc = "connected" <=> admin = <<"connect">>
         /\ table'[t].pc = "dropped" <=> admin = <<"connect", "drop">>
         /\ ~NothingSent(t)' => admin = <<"connect", "drop", "create">>
         /\ admin # <<"connect", "drop", "create">> => NothingSent(t)'
         /\ failed =>
               /\ table'[t].pc = "done"
               /\ ~table'[t].result.ok
               /\ table'[t].result.err.causes = <<>>
      ]_vars

\* the drop failed in a table run with rows to send: the run has ended with
\* the failure, no create attempted
C13_Witness ==
    \E t \in Tables :
        /\ table[t].admin = <<"connect", "drop_failed">>
        /\ table[t].pc = "done"
        /\ table[t].result.err.msg = "Failed to drop table"
        /\ Config(t).send.tot_rows > 0
        /\ Config(t).send.parallel_senders > 0

\* the distinct values of a pool
Values(pool) == {pool[i] : i \in DOMAIN pool}

\* C14: the pool DataGenerator::new builds for a sender holds
\* SYMBOL_POOL_SIZE distinct values: a symbol column can take that many
\* different values.
C14_PoolCardinality ==
    \A t \in Tables : \A s \in SenderIds :
        generator[t][s].pc = "ready" =>
            Cardinality(Values(symbol_pool)) = SYMBOL_POOL_SIZE

\* the constraints the data model states for the send settings of table t
ConstraintsHold(t) ==
    LET send == Config(t).send IN
    /\ send.batch_size[1] <= send.batch_size[2]
    /\ send.batch_pause[1] <= send.batch_pause[2]
    /\ send.parallel_senders >= 1

\* C15: under send settings that satisfy the stated constraints every sender
\* ends, because its loop makes progress in every iteration: each batch a
\* sender completes increases its rows_sent.
C15_LoopProgress ==
    [][\A t \in Tables : \A s \in SenderIds :
         (/\ ConstraintsHold(t)
          /\ sender[t][s].pc = "count"
          /\ sender'[t][s].pc # "count") =>
             sender'[t][s].rows_sent > sender[t][s].rows_sent
      ]_vars

\* the names of a sequence of (name, type) pairs
Names(columns) == [i \in 1..Len(columns) |-> columns[i][1]]

IsSymbol(column) == column[2] = "Symbol"
IsField(column) == column[2] \in {"Long", "Double", "Timestamp"}

\* the declared columns of table t whose name is not the designated one, in
\* schema order
OtherColumns(t) ==
    LET NotDesignated(column) == column[1] # Config(t).designated_ts
    IN  SelectSeq(Config(t).schema, NotDesignated)

\* C16: the lists a sender is started with hold each declared column whose
\* name is not the designated timestamp's exactly once, in schema order: the
\* Symbol columns in symbol_columns, the Long, Double and Timestamp columns
\* with their types in field_columns; the designated timestamp is in neither
\* list and no Symbol is in field_columns, so no row reaches the unreachable
\* branch: a sender panics only on an empty range.
C16_Classification ==
    \A t \in Tables : \A s \in SenderIds :
        LET me == sender[t][s]
            send == Config(t).send
        IN  me.pc # "unspawned" =>
              /\ me.symbol_columns = Names(SelectSeq(OtherColumns(t), IsSymbol))
              /\ me.field_columns = SelectSeq(OtherColumns(t), IsField)
              /\ Len(me.symbol_columns) + Len(me.field_columns)
                    = Len(OtherColumns(t))
              /\ \A i \in 1..Len(me.symbol_columns) :
                    me.symbol_columns[i] # Config(t).designated_ts
              /\ \A i \in 1..Len(me.field_columns) :
                    /\ me.field_columns[i][1] # Config(t).designated_ts
                    /\ ~IsSymbol(me.field_columns[i])
              /\ first_unreachable(row_ops(t, me.symbol_columns,
                                           me.field_columns)) = 0
              /\ me.pc = "panicked" =>
                    \/ send.batch_size[1] > send.batch_size[2]
                    \/ send.batch_pause[1] > send.batch_pause[2]

\* a sender of a table with two Symbol columns, a Long and two Timestamp
\* columns, one of them designated, has built a row
C16_Witness ==
    \E t \in Tables : \E s \in SenderIds :
        /\ Config(t).schema = SchemaMixed
        /\ sender[t][s].symbol_columns = <<"sym", "venue">>
        /\ sender[t][s].field_columns
              = << <<"qty", "Long">>, <<"recv", "Timestamp">> >>
        /\ wire[t][s].rows > 0

\* C17: a table run that attempts provisioning or starts a sender has a
\* designated timestamp that names exactly one declared column: a table whose
\* designated timestamp names no column, or several, fails validation.
C17_DesignatedDeclaredOnce ==
    \A t \in Tables :
        (table[t].admin # <<>> \/ \E s \in SenderIds : sender[t][s].pc # "unspawned")
            => Cardinality({i \in 1..Len(Config(t).schema) :
                              Config(t).schema[i][1] = Config(t).designated_ts}) = 1

\* the rows the senders 0..n-1 of table t have counted: the sum of their
\* rows_sent, which run adds to after a batch has been flushed
RECURSIVE CountedRows(_, _)
CountedRows(t, n) ==
    IF n = 0 THEN 0
    ELSE CountedRows(t, n - 1) + sender[t][n - 1].rows_sent

\* the counter of table t holds the rows its senders have counted, at most
\* tot_rows of them
CounterIsSum(t) ==
    /\ counter[t] = CountedRows(t, MaxSenders)
    /\ counter[t] <= Config(t).send.tot_rows

\* the value blast_table loaded from the counter, if it has: loaded in the
\* step that ends the table run with success, all senders joined
CounterLoaded(t) ==
    table[t].final_count # -1 =>
        /\ table[t].pc = "done"
        /\ table[t].result.ok
        /\ table[t].joined = Config(t).send.parallel_senders
        /\ \A s \in SendersOf(t) : Terminated(t, s)
        /\ table[t].final_count = counter[t]

\* C18: the counter of a table equals the sum over its senders of the rows of
\* the batches flushed and counted, never decreases and never exceeds
\* tot_rows; it changes only in the step in which a sender counts a batch, by
\* the rows of that batch, and it is read only by blast_table, when every
\* sender is joined and none failed.
C18_Counter ==
    [][\A t \in Tables :
         /\ CounterIsSum(t)'
         /\ counter'[t] >= counter[t]
         /\ counter'[t] # counter[t] =>
               \E s \in SendersOf(t) :
                  /\ sender[t][s].pc = "count"
                  /\ wire[t][s].buffered = 0
                  /\ counter'[t] - counter[t] = wire[t][s].batch.rows
         /\ CounterLoaded(t)'
         /\ table'[t].final_count # table[t].final_count =>
               (table[t].pc = "join" /\ counter'[t] = counter[t])
      ]_vars

\* a table run ended with one row counted out of two: the other sender built
\* its row and failed at the flush
C18_Witness ==
    \E t \in Tables :
        /\ table[t].pc = "done"
        /\ Config(t).send.tot_rows = 2
        /\ counter[t] = 1
        /\ \E s \in SendersOf(t) :
              /\ sender[t][s].pc = "failed"
              /\ wire[t][s].rows = 1
              /\ sender[t][s].rows_sent = 0

\* the calls that open an ingestion connection or try to
Connects == {"connect", "connect_failed"}

\* C19: a sender with a quota of 0 makes no call on an ingestion client (no
\* connect, no flush, no close), does not sleep, adds nothing to the counter
\* and ends with success, its thread neither failing nor panicking; and any
\* sender connects, or tries to, only in a step before which rows_sent is
\* below its quota.
C19_IdleSender ==
    [][\A t \in Tables : \A s \in SenderIds :
         /\ (sender'[t][s].pc # "unspawned" /\ sender'[t][s].rows_to_send = 0) =>
               /\ wire'[t][s].calls = <<>>
               /\ ~sender'[t][s].client
               /\ wire'[t][s].added = 0
               /\ wire'[t][s].rows = 0
               /\ sender'[t][s].pc \in {"spawned", "loop", "ok"}
               /\ sender'[t][s].result.ok
               /\ sender[t][s].pc = "loop" => sender'[t][s].pc \in {"loop", "ok"}
         /\ (\E c \in Connects : Count(wire'[t][s].calls, c)
                                    > Count(wire[t][s].calls, c)) =>
               sender[t][s].rows_sent < sender[t][s].rows_to_send
      ]_vars

\* of two senders of a table with one row, the one with the row has sent it
\* and the one without has ended with success
C19_Witness ==
    \E t \in Tables :
        /\ Config(t).send.tot_rows = 1
        /\ Config(t).send.parallel_senders = 2
        /\ sender[t][0].pc = "ok" /\ sender[t][0].rows_sent = 1
        /\ sender[t][1].pc = "ok" /\ sender[t][1].rows_to_send = 0
        /\ wire[t][1].calls = <<>>
        /\ counter[t] = 1

\* the flushes made outside send_batch: before a keepalive close and at the end
ClosingFlushes == {"flush_keepalive", "flush_final", "flush_final_failed"}

\* the rows of sender s of table t that a successful flush has taken from
\* the buffer: the rows built but those still buffered
FlushedRows(t, s) == wire[t][s].rows - wire[t][s].buffered

\* C20: the buffer of a sender holds no row when the sender makes the flush
\* before a keepalive close or the final flush; the rows a sender has counted
\* are rows a batch flush has succeeded on, all of them once the batch is
\* counted, so a failure of either closing flush (or any later failure)
\* takes no counted row back.
C20_NothingBuffered ==
    [][\A t \in Tables : \A s \in SenderIds :
         /\ (\E c \in ClosingFlushes : Count(wire'[t][s].calls, c)
                                          > Count(wire[t][s].calls, c)) =>
               /\ wire[t][s].buffered = 0
               /\ sender[t][s].rows_sent = wire[t][s].rows
               /\ wire'[t][s].added = wire[t][s].added
               /\ counter'[t] = counter[t]
         /\ wire'[t][s].added <= FlushedRows(t, s)'
         /\ wire'[t][s].added = sender'[t][s].rows_sent
         /\ sender'[t][s].pc \in {"keepalive", "pause", "loop", "ok"} =>
               /\ wire'[t][s].buffered = 0
               /\ wire'[t][s].added = wire'[t][s].rows
      ]_vars

\* the final flush of a sender failed after it had counted all its rows, two
\* or more, and closed a connection at the keepalive threshold
C20_Witness ==
    \E t \in Tables : \E s \in SenderIds :
        /\ sender[t][s].pc = "failed"
        /\ Count(wire[t][s].calls, "flush_final_failed") = 1
        /\ Count(wire[t][s].calls, "flush_keepalive") >= 1
        /\ wire[t][s].added = sender[t][s].rows_to_send
        /\ wire[t][s].added >= 2
        /\ counter[t] = wire[t][s].added

\* the number a u32 or a u64 stands for, where it fits the numbers of the
\* senders' steps (high digits 0, the digit before the last 0 or 1)
Small(x) ==
    /\ \A i \in 1..(Len(x) - 2) : x[i] = 0
    /\ x[Len(x) - 1] <= 1
Number(x) == x[Len(x) - 1] * U16_MODULUS + x[Len(x)]

max(a, b) == IF a >= b THEN a ELSE b

\* C21: for the smallest and the largest keepalive thresholds, over any
\* number of batches, batches_sent is below max(keepalive, 1) at the start
\* of every iteration, so its increment fits 16 bits (no panic, no wrapped
\* value) and is at most the threshold, or 1 for a threshold of 0; thresholds
\* 0 and 1 both reset it after every batch.  The clipped batch size cast to
\* u32 is the smaller of the sampled size and the rows that remain, with no
\* bit lost, and agrees with the sizes the senders' steps compute; the extra
\* rows cast to u16 are the extra rows, fewer than the senders.
C21_NoOverflow ==
    /\ ~arith.overflow
    /\ arith.pc = "panicked" => arith.parallel_senders = 0
    /\ arith.pc = "loop" =>
          /\ arith.batches_sent < max(arith.keepalive, 1)
          /\ arith.keepalive <= 1 => arith.batches_sent = 0
    /\ arith.pc = "keepalive" =>
          /\ arith.batches_sent >= 1
          /\ arith.batches_sent <= max(arith.keepalive, 1)
          /\ arith.batches_sent <= U16_MAX
    /\ arith.pc = "clipped" =>
          LET smaller == min_u64(u32_as_u64(arith.batch_size), arith.rows_remaining)
          IN  /\ u32_as_u64(arith.actual_batch_size) = smaller
              /\ ~less_u64(u32_as_u64(arith.batch_size), smaller)
              /\ ~less_u64(arith.rows_remaining, smaller)
              /\ (Small(arith.batch_size) /\ Small(arith.rows_remaining)) =>
                    Number(arith.actual_batch_size)
                        = actual_batch_size(Number(arith.batch_size),
                                            Number(arith.rows_remaining))
    /\ arith.pc = "distributed" =>
          /\ arith.extra_rows_as_u16 = arith.extra_rows
          /\ arith.extra_rows < arith.parallel_senders
          /\ rows_for_this_sender(arith.parallel_senders - 1, 0, arith.extra_rows) = 0

\* with the largest threshold the sender has counted the batch that makes
\* batches_sent the largest u16, and is about to reset it
C21_Witness ==
    /\ arith.pc = "keepalive"
    /\ arith.keepalive = U16_MAX
    /\ arith.batches_sent = U16_MAX

====
